---- MODULE Spec2Model ----
(***************************************************************************)
(* Model of the asynchronous job / workflow execution core of taskflow-ai. *)
(*                                                                         *)
(*   ProcessingService (app/services/processing_service.py): the persisted *)
(*   ProcessingJob row, create_job, cancel_job and the background runner   *)
(*   _process_job_async with its four type handlers.                       *)
(*                                                                         *)
(*   WorkflowService (app/services/workflow_service.py): the persisted     *)
(*   Workflow row with its run counters, execute_workflow and the step     *)
(*   dispatcher _execute_step.                                             *)
(*                                                                         *)
(* A database column that may be NULL is modelled as a sequence of length  *)
(* at most one: NULL is << >>, a stored value v is << v >>.  The Float     *)
(* column progress is kept in hundredths (100.0 is 10000), which           *)
(* represents every value the handlers write ((i + 1) * 33.33 included).   *)
(***************************************************************************)
EXTENDS Integers, Sequences, FiniteSets, TLC

(***************************************************************************)
(* Bounds of the model.                                                    *)
(***************************************************************************)
MaxTime == 2          \* the clock datetime.utcnow() ranges over 0..MaxTime
MaxRuns == 2          \* invocations of _process_job_async per job id
MaxCancels == 2       \* invocations of cancel_job

(***************************************************************************)
(* Identifiers.  JobIds are the primary keys create_job can assign;        *)
(* MissingId is an id no row ever has (the id the tests use for that).     *)
(***************************************************************************)
JobIds == {1}
MissingId == 99999
RequestIds == JobIds \cup {MissingId}

NULL == << >>
Some(v) == << v >>

(***************************************************************************)
(* JobStatus (app/schemas/document.py) and the job types.  "unknown"       *)
(* stands for any job_type string outside the four the runner dispatches   *)
(* on (the else branch of _process_job_async).                             *)
(***************************************************************************)
PENDING == "pending"
RUNNING == "running"
COMPLETED == "completed"
FAILED == "failed"
JobStatus == {PENDING, RUNNING, COMPLETED, FAILED}

KnownJobTypes == {"text_extraction", "ai_analysis", "categorization", "workflow"}
JobTypes == KnownJobTypes \cup {"unknown"}

\* document_id of a job: none, or the id of a document that does not exist
DocumentRefs == { NULL, Some(MissingId) }

FullProgress == 10000
CancelMessage == "Job cancelled by user"
UnknownTypeMessage == "Unknown job type: unknown"
StaleRowMessage == "row is not present"

VARIABLES
    jobs,       \* processing_jobs table: job id -> row (DOMAIN jobs = ids present)
    now,        \* datetime.utcnow()
    rpc,        \* per job id: position of the _process_job_async coroutine
    ri,         \* per job id: loop variable i of the running handler
    runs,       \* per job id: number of _process_job_async invocations so far
    cancels,    \* number of cancel_job invocations so far
    last,       \* the last cancel_job call: its argument and return value
    issued      \* primary keys the processing_jobs sequence has handed out

VARIABLES
    wf,         \* workflows table: workflow id -> row (DOMAIN wf = ids present)
    ex          \* per execution slot: the state of one execute_workflow call

VARIABLES
    docs,       \* documents table: document id -> row
    files,      \* ids of the documents whose file is in the uploads directory
    up,         \* per document id: position of its upload_document call
    task,       \* the Celery task request in hand
    sent,       \* number of task requests sent so far
    batch       \* the process_document_batch run in hand

VARIABLES
    active_connections,   \* ConnectionManager.active_connections
    connects,             \* number of websockets accepted so far
    broken,               \* the websockets whose send raises
    bc,                   \* the notify_processing_progress call in hand
    notifies,             \* number of notify_processing_progress calls so far
    connection_metadata,  \* ConnectionManager.connection_metadata: per slot of
                          \* active_connections, the "subscriptions" of its client
    nd,                   \* the notify_document_update call in hand
    updates               \* number of notify_document_update calls so far

VARIABLES
    job_counts, \* number of rows of processing_jobs in each status
    report      \* the dict get_system_status returned

jobVars == << jobs, now, rpc, ri, runs, cancels, last, issued >>
wfVars == << wf, ex >>
taskVars == << docs, files, up, task, sent, batch >>
connVars == << active_connections, connects, broken, bc, notifies,
              connection_metadata, nd, updates >>
statusVars == << job_counts, report >>
vars == << jobs, now, rpc, ri, runs, cancels, last, issued, wf, ex,
          docs, files, up, task, sent, batch,
          active_connections, connects, broken, bc, notifies,
          connection_metadata, nd, updates, job_counts, report >>

(***************************************************************************)
(* create_job: the row inserted by ProcessingService.create_job, with the  *)
(* column defaults of the ProcessingJob model.                             *)
(***************************************************************************)
NewJob(job_type, document_id, t) ==
    [ job_type         |-> job_type,
      document_id      |-> document_id,
      created_at       |-> t,
      status           |-> PENDING,
      progress         |-> 0,
      error_message    |-> NULL,
      started_at       |-> NULL,
      completed_at     |-> NULL,
      duration_seconds |-> NULL ]

create_job(id, job_type, document_id) ==
    /\ id \in JobIds
    /\ id \notin issued
    /\ issued' = issued \cup {id}
    /\ jobs' = jobs @@ (id :> NewJob(job_type, document_id, now))
    /\ UNCHANGED << now, rpc, ri, runs, cancels, last, wfVars, taskVars, connVars, statusVars >>

(***************************************************************************)
(* cancel_job.  The handler has no await: query, test, assignment and      *)
(* commit run as one step.                                                 *)
(***************************************************************************)
CancelGuard_NoCheck(status) == TRUE

CancelGuard(status) == status \in {PENDING, RUNNING}

CancelledJob_NoCompletedAt(job, t) ==
    [ job EXCEPT !.status = FAILED,
                 !.error_message = Some(CancelMessage) ]

CancelledJob(job, t) ==
    [ job EXCEPT !.status = FAILED,
                 !.error_message = Some(CancelMessage),
                 !.completed_at = Some(t) ]

\* cancel_job holds no handle on the background task: the coroutine of
\* _process_job_async stays where it is.
RunnerAfterCancel_Interrupted(pc) == "idle"

RunnerAfterCancel(pc) == pc

cancel_job(id) ==
    /\ cancels < MaxCancels
    /\ cancels' = cancels + 1
    /\ rpc' = [ r \in DOMAIN rpc |-> IF r = id THEN RunnerAfterCancel(rpc[r]) ELSE rpc[r] ]
    /\ IF id \in DOMAIN jobs /\ CancelGuard(jobs[id].status)
         THEN /\ jobs' = [ jobs EXCEPT ![id] = CancelledJob(@, now) ]
              /\ last' = [ id |-> id, ret |-> TRUE ]
         ELSE /\ jobs' = jobs
              /\ last' = [ id |-> id, ret |-> FALSE ]
    /\ UNCHANGED << now, ri, runs, issued, wfVars, taskVars, connVars, statusVars >>

(***************************************************************************)
(* The type handlers _process_text_extraction, _process_ai_analysis,       *)
(* _process_categorization and _process_workflow: range(n) iterations,     *)
(* each one sleeping, then writing progress and committing.                *)
(***************************************************************************)
HandlerIterations(job_type) ==
    CASE job_type = "text_extraction" -> 5
      [] job_type = "ai_analysis"     -> 10
      [] job_type = "categorization"  -> 3
      [] job_type = "workflow"        -> 8

HandlerProgress_Countdown(job_type, i) ==
    CASE job_type = "text_extraction" -> (5 - i) * 2000
      [] job_type = "ai_analysis"     -> (10 - i) * 1000
      [] job_type = "categorization"  -> (3 - i) * 3333
      [] job_type = "workflow"        -> (8 - i) * 1250

HandlerProgress(job_type, i) ==
    CASE job_type = "text_extraction" -> (i + 1) * 2000
      [] job_type = "ai_analysis"     -> (i + 1) * 1000
      [] job_type = "categorization"  -> (i + 1) * 3333
      [] job_type = "workflow"        -> (i + 1) * 1250

(***************************************************************************)
(* _process_job_async, split at its commits and awaits.                    *)
(*   idle   : no invocation in progress                                    *)
(*   loop   : inside a handler, suspended in asyncio.sleep                 *)
(*   finish : the handler has returned, "Mark as completed" is next        *)
(*   raise  : the dispatch raised ValueError, the except block is next     *)
(*   stale  : a commit or attribute load failed because the row is gone,   *)
(*            the except block is next                                     *)
(***************************************************************************)
StartedJob(job, t) ==
    [ job EXCEPT !.status = RUNNING,
                 !.started_at = Some(t),
                 !.progress = 0 ]

process_job_async_start(id) ==
    /\ rpc[id] = "idle"
    /\ runs[id] < MaxRuns
    /\ runs' = [ runs EXCEPT ![id] = @ + 1 ]
    /\ IF id \notin DOMAIN jobs
         THEN UNCHANGED << jobs, rpc, ri >>
         ELSE /\ jobs' = [ jobs EXCEPT ![id] = StartedJob(@, now) ]
              /\ ri' = [ ri EXCEPT ![id] = 0 ]
              /\ rpc' = [ rpc EXCEPT ![id] =
                            IF jobs[id].job_type \in KnownJobTypes
                              THEN "loop" ELSE "raise" ]
    /\ UNCHANGED << now, cancels, last, issued, wfVars, taskVars, connVars, statusVars >>

process_handler_step(id) ==
    /\ rpc[id] = "loop"
    /\ IF id \in DOMAIN jobs
         THEN /\ jobs' = [ jobs EXCEPT ![id].progress =
                             HandlerProgress(jobs[id].job_type, ri[id]) ]
              /\ ri' = [ ri EXCEPT ![id] = @ + 1 ]
              /\ rpc' = [ rpc EXCEPT ![id] =
                            IF ri[id] + 1 = HandlerIterations(jobs[id].job_type)
                              THEN "finish" ELSE "loop" ]
         ELSE \* the UPDATE matches no row: commit raises StaleDataError
              /\ rpc' = [ rpc EXCEPT ![id] = "stale" ]
              /\ UNCHANGED << jobs, ri >>
    /\ UNCHANGED << now, runs, cancels, last, issued, wfVars, taskVars, connVars, statusVars >>

Elapsed_Unset(job, t) == NULL

Elapsed(job, t) ==
    IF job.started_at = NULL THEN NULL ELSE Some(t - job.started_at[1])

CompletedJob_KeepProgress(job, t) ==
    [ job EXCEPT !.status = COMPLETED,
                 !.completed_at = Some(t),
                 !.duration_seconds = Elapsed(job, t) ]

CompletedJob(job, t) ==
    [ job EXCEPT !.status = COMPLETED,
                 !.progress = FullProgress,
                 !.completed_at = Some(t),
                 !.duration_seconds = Elapsed(job, t) ]

process_job_async_complete(id) ==
    /\ rpc[id] = "finish"
    /\ IF id \in DOMAIN jobs
         THEN /\ jobs' = [ jobs EXCEPT ![id] = CompletedJob(@, now) ]
              /\ rpc' = [ rpc EXCEPT ![id] = "idle" ]
         ELSE \* the expired row cannot be refreshed: ObjectDeletedError
              /\ rpc' = [ rpc EXCEPT ![id] = "stale" ]
              /\ jobs' = jobs
    /\ UNCHANGED << now, ri, runs, cancels, last, issued, wfVars, taskVars, connVars, statusVars >>

(***************************************************************************)
(* The except block.  The only exception a handler dispatch raises on an   *)
(* existing row is the ValueError of the else branch; str(e) is its        *)
(* message.                                                                *)
(***************************************************************************)
FailedJob_NoMessage(job, message, t) ==
    [ job EXCEPT !.status = FAILED,
                 !.completed_at = Some(t),
                 !.duration_seconds = Elapsed(job, t) ]

FailedJob(job, message, t) ==
    [ job EXCEPT !.status = FAILED,
                 !.error_message = Some(message),
                 !.completed_at = Some(t),
                 !.duration_seconds = Elapsed(job, t) ]

ExceptionMessage(pc) ==
    IF pc = "raise" THEN UnknownTypeMessage ELSE StaleRowMessage

process_job_async_fail(id) ==
    /\ rpc[id] \in {"raise", "stale"}
    /\ jobs' = IF id \in DOMAIN jobs
                THEN [ jobs EXCEPT ![id] =
                         FailedJob(@, ExceptionMessage(rpc[id]), now) ]
                ELSE jobs
    /\ rpc' = [ rpc EXCEPT ![id] = "idle" ]
    /\ UNCHANGED << now, ri, runs, cancels, last, issued, wfVars, taskVars, connVars, statusVars >>

(***************************************************************************)
(* cancel_processing_job (POST /jobs/{job_id}/cancel): the status code the *)
(* endpoint answers for the value cancel_job returned.                     *)
(***************************************************************************)
NotFound == 404
Ok == 200

cancel_processing_job(success) == IF success THEN Ok ELSE NotFound

(***************************************************************************)
(* cleanup_old_jobs (maintenance task, its own process and session):       *)
(* deletes every row created before the cutoff, whatever its status, in    *)
(* one commit.  One unit of the clock is the retention period of 30 days.  *)
(***************************************************************************)
RetentionPeriod == 1

OldJobs(t) == { id \in DOMAIN jobs : jobs[id].created_at < t - RetentionPeriod }

cleanup_old_jobs ==
    /\ OldJobs(now) # {}
    /\ jobs' = [ id \in DOMAIN jobs \ OldJobs(now) |-> jobs[id] ]
    /\ UNCHANGED << now, rpc, ri, runs, cancels, last, issued, wfVars, taskVars, connVars, statusVars >>

Tick ==
    /\ now < MaxTime
    /\ now' = now + 1
    /\ UNCHANGED << jobs, rpc, ri, runs, cancels, last, issued, wfVars, taskVars, connVars, statusVars >>

JobInit ==
    /\ jobs = << >>
    /\ now = 0
    /\ rpc = [ id \in RequestIds |-> "idle" ]
    /\ ri = [ id \in RequestIds |-> 0 ]
    /\ runs = [ id \in RequestIds |-> 0 ]
    /\ cancels = 0
    /\ last = [ id |-> MissingId, ret |-> FALSE ]
    /\ issued = {}

JobNext ==
    \/ \E id \in JobIds, job_type \in JobTypes, document_id \in DocumentRefs :
          create_job(id, job_type, document_id)
    \/ \E id \in RequestIds : cancel_job(id)
    \/ \E id \in RequestIds : process_job_async_start(id)
    \/ \E id \in RequestIds : process_handler_step(id)
    \/ \E id \in RequestIds : process_job_async_complete(id)
    \/ \E id \in RequestIds : process_job_async_fail(id)
    \/ cleanup_old_jobs
    \/ Tick

(***************************************************************************)
(* Workflows.                                                              *)
(***************************************************************************)
MaxExecs == 3         \* execute_workflow invocations (execution slots)
MaxSteps == 2         \* steps in a workflow

WorkflowIds == {1}
Execs == 1 .. MaxExecs

KnownStepTypes == {"text_extraction", "ai_analysis", "categorization", "notification"}
StepTypes == KnownStepTypes \cup {"unknown"}

RECURSIVE StepTypeLists(_)
StepTypeLists(n) ==
    IF n = 0 THEN { << >> }
    ELSE LET shorter == StepTypeLists(n - 1)
         IN  shorter \cup { Append(s, t) : s \in shorter, t \in StepTypes }

(***************************************************************************)
(* A stored step is a dict with step_type and order (step_id and config    *)
(* take no part in the execution).  The order values submitted with a      *)
(* workflow either follow the list positions or run against them.          *)
(***************************************************************************)
OrderLayouts == {"ascending", "descending"}

MakeSteps(types, layout) ==
    [ p \in 1 .. Len(types) |->
        [ step_type |-> types[p],
          order     |-> IF layout = "ascending" THEN p
                        ELSE Len(types) + 1 - p ] ]

StepLists(n) ==
    { MakeSteps(types, layout) : types \in StepTypeLists(n), layout \in OrderLayouts }

(***************************************************************************)
(* create_workflow: the row inserted, run counters at their defaults.      *)
(***************************************************************************)
NewWorkflow(steps) ==
    [ steps           |-> steps,
      is_active       |-> TRUE,
      total_runs      |-> 0,
      successful_runs |-> 0,
      failed_runs     |-> 0 ]

create_workflow(id, steps) ==
    /\ id \notin DOMAIN wf
    /\ wf' = wf @@ (id :> NewWorkflow(steps))
    /\ UNCHANGED << ex, jobVars, taskVars, connVars, statusVars >>

(***************************************************************************)
(* The step handlers _execute_text_extraction_step, ..._ai_analysis_step,  *)
(* ..._categorization_step and ..._notification_step each begin with       *)
(* "await asyncio.sleep(...)".  The module imports Session, List,          *)
(* Optional, datetime, Workflow and the schemas, and not asyncio, so the   *)
(* name asyncio is unbound and every handler raises NameError.             *)
(***************************************************************************)
AsyncioImported == FALSE

StepHandler(step_type) ==
    IF AsyncioImported THEN "True" ELSE "NameError"

(***************************************************************************)
(* _execute_step: dispatch on step_type; an unknown type returns False,    *)
(* an exception of a handler is caught and returns False.                  *)
(***************************************************************************)
ExecuteStep_UnknownSucceeds(step_type) ==
    IF step_type \in KnownStepTypes
      THEN StepHandler(step_type) = "True"
      ELSE TRUE

ExecuteStep(step_type) ==
    IF step_type \in KnownStepTypes
      THEN StepHandler(step_type) = "True"
      ELSE FALSE

(***************************************************************************)
(* "for step_data in workflow.steps": the k-th iteration takes the k-th    *)
(* element of the stored list; the order field is not read.                *)
(***************************************************************************)
IterationOrder_SortedByOrder(steps) ==
    CHOOSE perm \in [ 1 .. Len(steps) -> 1 .. Len(steps) ] :
        /\ \A p, q \in 1 .. Len(steps) : p # q => perm[p] # perm[q]
        /\ \A p, q \in 1 .. Len(steps) :
              p < q => steps[perm[p]].order <= steps[perm[q]].order

IterationOrder(steps) == [ p \in 1 .. Len(steps) |-> p ]

(***************************************************************************)
(* execute_workflow.  One execution slot is one call with its own session: *)
(*   idle          : not called yet                                        *)
(*   steps         : in the for loop, about to run step number k           *)
(*   commit_failed : a step returned False; failed_runs += 1, commit next  *)
(*   commit_ok     : the loop is over; successful_runs += 1, commit next   *)
(*   done          : returned                                              *)
(* loaded is the row as this session read it; the session's commit issues  *)
(* an UPDATE that sets the columns this call assigned to the values it     *)
(* computed from loaded.                                                   *)
(***************************************************************************)
IdleExec ==
    [ pc |-> "idle", wid |-> 0, k |-> 0, invoked |-> << >>,
      loaded |-> NewWorkflow(<< >>), outcome |-> "none" ]

RowAfterEntry_Committed(row) == [ row EXCEPT !.total_runs = @ + 1 ]

RowAfterEntry(row) == row

AfterStep_Continue(success, k, n) ==
    IF k = n THEN "commit_ok" ELSE "steps"

AfterStep(success, k, n) ==
    IF ~success THEN "commit_failed"
    ELSE IF k = n THEN "commit_ok" ELSE "steps"

execute_workflow_begin(e, id) ==
    /\ ex[e].pc = "idle"
    /\ IF id \notin DOMAIN wf
         THEN /\ ex' = [ ex EXCEPT ![e] = [ @ EXCEPT !.pc = "done", !.wid = id,
                                                     !.outcome = "not_found" ] ]
              /\ wf' = wf
         ELSE /\ ex' = [ ex EXCEPT ![e] =
                          [ pc      |-> IF Len(wf[id].steps) = 0
                                          THEN "commit_ok" ELSE "steps",
                            wid     |-> id,
                            k       |-> 1,
                            invoked |-> << >>,
                            loaded  |-> wf[id],
                            outcome |-> "none" ] ]
              /\ wf' = [ wf EXCEPT ![id] = RowAfterEntry(@) ]
    /\ UNCHANGED << jobVars, taskVars, connVars, statusVars >>

execute_workflow_step(e) ==
    /\ ex[e].pc = "steps"
    /\ LET steps == ex[e].loaded.steps
           k == ex[e].k
           position == IterationOrder(steps)[k]
           success == ExecuteStep(steps[position].step_type)
       IN  ex' = [ ex EXCEPT ![e] =
                     [ @ EXCEPT !.invoked = Append(@, position),
                                !.k = k + 1,
                                !.pc = AfterStep(success, k, Len(steps)) ] ]
    /\ UNCHANGED << wf, jobVars, taskVars, connVars, statusVars >>

execute_workflow_commit_failed(e) ==
    /\ ex[e].pc = "commit_failed"
    /\ wf' = [ wf EXCEPT ![ex[e].wid] =
                 [ @ EXCEPT !.total_runs = ex[e].loaded.total_runs + 1,
                            !.failed_runs = ex[e].loaded.failed_runs + 1 ] ]
    /\ ex' = [ ex EXCEPT ![e] = [ @ EXCEPT !.pc = "done", !.outcome = "failed" ] ]
    /\ UNCHANGED << jobVars, taskVars, connVars, statusVars >>

execute_workflow_commit_ok(e) ==
    /\ ex[e].pc = "commit_ok"
    /\ wf' = [ wf EXCEPT ![ex[e].wid] =
                 [ @ EXCEPT !.total_runs = ex[e].loaded.total_runs + 1,
                            !.successful_runs = ex[e].loaded.successful_runs + 1 ] ]
    /\ ex' = [ ex EXCEPT ![e] = [ @ EXCEPT !.pc = "done", !.outcome = "success" ] ]
    /\ UNCHANGED << jobVars, taskVars, connVars, statusVars >>

(***************************************************************************)
(* list_workflows, update_workflow (of the is_active field) and            *)
(* delete_workflow, which keeps the row and sets is_active to False.       *)
(***************************************************************************)
list_workflows == { id \in DOMAIN wf : wf[id].is_active }

update_workflow(id, is_active) ==
    /\ id \in DOMAIN wf
    /\ wf' = [ wf EXCEPT ![id].is_active = is_active ]
    /\ UNCHANGED << ex, jobVars, taskVars, connVars, statusVars >>

delete_workflow(id) ==
    /\ id \in DOMAIN wf
    /\ wf' = [ wf EXCEPT ![id].is_active = FALSE ]
    /\ UNCHANGED << ex, jobVars, taskVars, connVars, statusVars >>

WfInit ==
    /\ wf = << >>
    /\ ex = [ e \in Execs |-> IdleExec ]

WfNext ==
    \/ \E id \in WorkflowIds, steps \in StepLists(MaxSteps) : create_workflow(id, steps)
    \/ \E e \in Execs, id \in WorkflowIds : execute_workflow_begin(e, id)
    \/ \E e \in Execs : execute_workflow_step(e)
    \/ \E e \in Execs : execute_workflow_commit_failed(e)
    \/ \E e \in Execs : execute_workflow_commit_ok(e)

\* the workflow requests with soft delete among them
MaxLateExecs == 1     \* execute_workflow invocations next to delete_workflow

SoftDeleteNext ==
    \/ \E id \in WorkflowIds, steps \in StepLists(MaxSteps) : create_workflow(id, steps)
    \/ \E e \in 1 .. MaxLateExecs, id \in WorkflowIds : execute_workflow_begin(e, id)
    \/ \E e \in 1 .. MaxLateExecs : execute_workflow_step(e)
    \/ \E e \in 1 .. MaxLateExecs : execute_workflow_commit_failed(e)
    \/ \E e \in 1 .. MaxLateExecs : execute_workflow_commit_ok(e)
    \/ \E id \in WorkflowIds : update_workflow(id, TRUE)
    \/ \E id \in WorkflowIds : delete_workflow(id)

(***************************************************************************)
(* Documents, their files, and the Celery tasks of app/tasks.              *)
(***************************************************************************)
MaxTasks == 2         \* task requests sent to the broker
MaxBatch == 3         \* length of the id list of a batch

DocIds == {1, 2}
DocRequestIds == DocIds \cup {MissingId}

NotFoundMessage == "Document not found"
FileNotFoundMessage == "File not found"
NoneAttributeMessage == "'NoneType' object has no attribute 'status'"

RECURSIVE IdLists(_)
IdLists(n) ==
    IF n = 0 THEN { << >> }
    ELSE LET shorter == IdLists(n - 1)
         IN  shorter \cup { Append(s, id) : s \in shorter, id \in DocRequestIds }

(***************************************************************************)
(* upload_document: the file is saved to disk first, the row is committed  *)
(* afterwards.  cleanup_orphaned_files removes every file of the uploads   *)
(* directory that no row refers to.                                        *)
(***************************************************************************)
NewDocument ==
    [ status              |-> "uploaded",
      processing_progress |-> 0,
      error_message       |-> NULL,
      extracted_text      |-> NULL ]

upload_document_save(id) ==
    /\ up[id] = "none"
    /\ up' = [ up EXCEPT ![id] = "saved" ]
    /\ files' = files \cup {id}
    /\ UNCHANGED << docs, task, sent, batch, jobVars, wfVars, connVars, statusVars >>

upload_document_commit(id) ==
    /\ up[id] = "saved"
    /\ up' = [ up EXCEPT ![id] = "done" ]
    /\ docs' = docs @@ (id :> NewDocument)
    /\ UNCHANGED << files, task, sent, batch, jobVars, wfVars, connVars, statusVars >>

cleanup_orphaned_files ==
    /\ files \ DOMAIN docs # {}
    /\ files' = files \cap DOMAIN docs
    /\ UNCHANGED << docs, up, task, sent, batch, jobVars, wfVars, connVars, statusVars >>

(***************************************************************************)
(* TextExtractionService.extract_text raises FileNotFoundError when the    *)
(* path does not exist; every other failure is returned as text.           *)
(***************************************************************************)
ExtractionRaises(id) == id \notin files

ExtractedDocument(doc) ==
    [ doc EXCEPT !.extracted_text = Some("text"),
                 !.status = "completed",
                 !.processing_progress = FullProgress ]

FailedDocument(doc, message) ==
    [ doc EXCEPT !.status = "failed",
                 !.error_message = Some(message) ]

(***************************************************************************)
(* One task request and Task.retry as the tasks call it:                   *)
(* self.retry(exc=e, countdown=60, max_retries=3) schedules the next run   *)
(* while request.retries is below max_retries and re-raises exc otherwise. *)
(***************************************************************************)
RetryCountdown == 60
MaxRetries == 3

NoTask ==
    [ name |-> "none", arg |-> MissingId, state |-> "NONE",
      retries |-> 0, attempts |-> 0, countdown |-> 0, exc |-> NULL ]

RetriesExhausted_OneMore(retries) == retries >= MaxRetries + 1

RetriesExhausted(retries) == retries >= MaxRetries

Retry(t, message) ==
    IF RetriesExhausted(t.retries)
      THEN [ t EXCEPT !.state = "FAILURE",
                      !.attempts = @ + 1,
                      !.exc = Some(message) ]
      ELSE [ t EXCEPT !.state = "RETRY",
                      !.attempts = @ + 1,
                      !.retries = @ + 1,
                      !.countdown = RetryCountdown,
                      !.exc = Some(message) ]

Raise(t, message) ==
    [ t EXCEPT !.state = "FAILURE",
               !.attempts = @ + 1,
               !.exc = Some(message) ]

Return(t) ==
    [ t EXCEPT !.state = "SUCCESS",
               !.attempts = @ + 1,
               !.exc = NULL ]

TaskNames == {"extract_text_from_document", "analyze_document_with_ai"}

apply_async(name, arg) ==
    /\ task.state \in {"NONE", "SUCCESS", "FAILURE"}
    /\ sent < MaxTasks
    /\ sent' = sent + 1
    /\ task' = [ NoTask EXCEPT !.name = name, !.arg = arg, !.state = "PENDING" ]
    /\ UNCHANGED << docs, files, up, batch, jobVars, wfVars, connVars, statusVars >>

(***************************************************************************)
(* One run of extract_text_from_document.  With no row, document is None   *)
(* and yet a local: the except block evaluates None.status = "failed",     *)
(* and the AttributeError leaves the task before self.retry is reached.    *)
(***************************************************************************)
extract_text_from_document ==
    /\ task.name = "extract_text_from_document"
    /\ task.state \in {"PENDING", "RETRY"}
    /\ LET id == task.arg
       IN  IF id \notin DOMAIN docs
             THEN /\ task' = Raise(task, NoneAttributeMessage)
                  /\ docs' = docs
             ELSE IF ExtractionRaises(id)
               THEN /\ docs' = [ docs EXCEPT ![id] =
                                   FailedDocument(@, FileNotFoundMessage) ]
                    /\ task' = Retry(task, FileNotFoundMessage)
               ELSE /\ docs' = [ docs EXCEPT ![id] = ExtractedDocument(@) ]
                    /\ task' = Return(task)
    /\ UNCHANGED << files, up, sent, batch, jobVars, wfVars, connVars, statusVars >>

(***************************************************************************)
(* One run of analyze_document_with_ai.  AIService.analyze_document is a   *)
(* simulation that does not raise.                                         *)
(***************************************************************************)
AnalyzedDocument(doc) ==
    [ doc EXCEPT !.status = "completed",
                 !.processing_progress = FullProgress ]

analyze_document_with_ai ==
    /\ task.name = "analyze_document_with_ai"
    /\ task.state \in {"PENDING", "RETRY"}
    /\ LET id == task.arg
       IN  IF id \notin DOMAIN docs
             THEN /\ task' = Raise(task, NoneAttributeMessage)
                  /\ docs' = docs
             ELSE /\ docs' = [ docs EXCEPT ![id] = AnalyzedDocument(@) ]
                  /\ task' = Return(task)
    /\ UNCHANGED << files, up, sent, batch, jobVars, wfVars, connVars, statusVars >>

(***************************************************************************)
(* process_document_batch, one step per element of document_ids and one    *)
(* for the commit after the loop.  The changes of the loop stay in the     *)
(* session (dirty: document id -> the columns set) until that commit.      *)
(* The local variable document lives across the iterations: it is unbound  *)
(* until the first query returns, and then holds what the last query       *)
(* returned, None or a row.  update_state, which comes before the query,   *)
(* raises when the result backend cannot be reached.                       *)
(*   raised : the call has left through the outer except (self.retry);     *)
(*            the session is closed with its changes unwritten             *)
(***************************************************************************)
Unbound == << >>
None == 0
BackendMessage == "backend unavailable"

IdleBatch ==
    [ pc |-> "idle", ids |-> << >>, i |-> 1, results |-> << >>, dirty |-> << >>,
      document |-> Unbound ]

AfterItem(status, i, n) ==
    IF i = n THEN "commit" ELSE "loop"

process_document_batch_begin(ids) ==
    /\ batch.pc \in {"idle", "done", "raised"}
    /\ batch' = [ IdleBatch EXCEPT !.ids = ids,
                                   !.pc = IF ids = << >> THEN "commit" ELSE "loop" ]
    /\ UNCHANGED << docs, files, up, task, sent, jobVars, wfVars, connVars, statusVars >>

BatchEntry(id) ==
    IF id \notin DOMAIN docs THEN "not_found"
    ELSE IF ExtractionRaises(id) THEN "failed"
    ELSE "completed"

NoChange == [ extracted |-> FALSE, status |-> NULL, error_message |-> NULL ]

Change(dirty, id) == IF id \in DOMAIN dirty THEN dirty[id] ELSE NoChange

SetChange(dirty, id, change) ==
    [ d \in DOMAIN dirty \cup {id} |-> IF d = id THEN change ELSE dirty[d] ]

\* document.extracted_text = ...; document.status = "completed"; ...
MarkCompleted(change) ==
    [ change EXCEPT !.extracted = TRUE, !.status = Some("completed") ]

\* document.status = "failed"; document.error_message = str(e)
MarkFailed(change, message) ==
    [ change EXCEPT !.status = Some("failed"), !.error_message = Some(message) ]

process_document_batch_item(interrupted) ==
    /\ batch.pc = "loop"
    /\ LET id == batch.ids[batch.i]
           status == IF interrupted THEN "failed" ELSE BatchEntry(id)
           \* the value of document when the loop body is left
           document == IF interrupted THEN batch.document
                       ELSE IF id \in DOMAIN docs THEN << id >> ELSE << None >>
           message == IF interrupted THEN BackendMessage ELSE FileNotFoundMessage
       IN  IF status = "failed" /\ document = << None >>
             THEN \* None.status = ...: AttributeError inside the handler
                  batch' = [ batch EXCEPT !.pc = "raised", !.dirty = << >>,
                                          !.document = document ]
             ELSE batch' = [ batch EXCEPT
                     !.results = Append(@, [ document_id |-> id, status |-> status ]),
                     !.dirty =
                        IF status = "completed"
                          THEN SetChange(@, id, MarkCompleted(Change(@, id)))
                        ELSE IF status = "failed" /\ document # Unbound
                          THEN SetChange(@, document[1],
                                         MarkFailed(Change(@, document[1]), message))
                        ELSE @,
                     !.document = document,
                     !.i = @ + 1,
                     !.pc = AfterItem(status, batch.i, Len(batch.ids)) ]
    /\ UNCHANGED << docs, files, up, task, sent, jobVars, wfVars, connVars, statusVars >>

\* the UPDATE the flush issues for a row the loop changed
FlushedDocument(doc, change) ==
    [ doc EXCEPT
        !.extracted_text = IF change.extracted THEN Some("text") ELSE @,
        !.processing_progress = IF change.extracted THEN FullProgress ELSE @,
        !.status = IF change.status # NULL THEN change.status[1] ELSE @,
        !.error_message = IF change.error_message # NULL
                            THEN change.error_message ELSE @ ]

process_document_batch_commit ==
    /\ batch.pc = "commit"
    /\ docs' = [ id \in DOMAIN docs |->
                   IF id \in DOMAIN batch.dirty
                     THEN FlushedDocument(docs[id], batch.dirty[id])
                     ELSE docs[id] ]
    /\ batch' = [ batch EXCEPT !.pc = "done", !.dirty = << >> ]
    /\ UNCHANGED << files, up, task, sent, jobVars, wfVars, connVars, statusVars >>

TaskInit ==
    /\ docs = << >>
    /\ files = {}
    /\ up = [ id \in DocIds |-> "none" ]
    /\ task = NoTask
    /\ sent = 0
    /\ batch = IdleBatch

TaskNext ==
    \/ \E id \in DocIds : upload_document_save(id)
    \/ \E id \in DocIds : upload_document_commit(id)
    \/ cleanup_orphaned_files
    \/ \E name \in TaskNames, arg \in DocRequestIds : apply_async(name, arg)
    \/ extract_text_from_document
    \/ analyze_document_with_ai

BatchNext ==
    \/ \E id \in DocIds : upload_document_save(id)
    \/ \E id \in DocIds : upload_document_commit(id)
    \/ cleanup_orphaned_files
    \/ \E ids \in IdLists(MaxBatch) : process_document_batch_begin(ids)
    \/ \E interrupted \in BOOLEAN : process_document_batch_item(interrupted)
    \/ process_document_batch_commit

(***************************************************************************)
(* ConnectionManager (app/websocket/connection_manager.py) and the         *)
(* websocket endpoint of main.py that drives it.                           *)
(***************************************************************************)
MaxConnects == 3      \* websockets accepted by manager.connect
MaxNotifies == 2      \* calls of notify_processing_progress

ClientIds == {"a", "b"}

(***************************************************************************)
(* active_connections is a dict: entries in insertion order.  Deleting a   *)
(* key leaves a dead slot behind (Removed), assigning to a present key     *)
(* replaces the value in its slot, assigning to a new key appends a slot.  *)
(* A websocket is named by the number of the connect call that got it.     *)
(* (The re-packing of the slots when the dict grows is left out.)          *)
(***************************************************************************)
Removed == [ client |-> "", ws |-> 0 ]

LiveSlots(conns) == { i \in 1 .. Len(conns) : conns[i] # Removed }

Registered(conns) == { conns[i].client : i \in LiveSlots(conns) }

SlotOf(conns, client) ==
    CHOOSE i \in LiveSlots(conns) : conns[i].client = client

SetItem_Append(conns, client, ws) ==
    Append(conns, [ client |-> client, ws |-> ws ])

SetItem(conns, client, ws) ==
    IF client \in Registered(conns)
      THEN [ conns EXCEPT ![SlotOf(conns, client)].ws = ws ]
      ELSE Append(conns, [ client |-> client, ws |-> ws ])

DelItem(conns, client) ==
    IF client \in Registered(conns)
      THEN [ conns EXCEPT ![SlotOf(conns, client)] = Removed ]
      ELSE conns

RECURSIVE DelItems(_, _)
DelItems(conns, clients) ==
    IF clients = << >> THEN conns
    ELSE DelItems(DelItem(conns, Head(clients)), Tail(clients))

(***************************************************************************)
(* connection_metadata has the keys of active_connections, set and deleted *)
(* by the same calls, so it has the same slots; what is kept of a slot is  *)
(* its "subscriptions" set (empty for a dead slot).  connect stores a      *)
(* fresh dict with an empty set, for a new and for a present key alike.    *)
(***************************************************************************)
SetMeta(conns, meta, client) ==
    IF client \in Registered(conns)
      THEN [ meta EXCEPT ![SlotOf(conns, client)] = {} ]
      ELSE Append(meta, {})

DelMeta(conns, meta, client) ==
    IF client \in Registered(conns)
      THEN [ meta EXCEPT ![SlotOf(conns, client)] = {} ]
      ELSE meta

RECURSIVE DelMetas(_, _, _)
DelMetas(conns, meta, clients) ==
    IF clients = << >> THEN meta
    ELSE DelMetas(DelItem(conns, Head(clients)),
                  DelMeta(conns, meta, Head(clients)), Tail(clients))

\* the first live slot at or after position p, 0 when there is none
NextSlot(conns, p) ==
    IF \E i \in LiveSlots(conns) : i >= p
      THEN CHOOSE i \in LiveSlots(conns) :
             i >= p /\ \A j \in LiveSlots(conns) : j >= p => i <= j
      ELSE 0

connect(client_id) ==
    /\ connects < MaxConnects
    /\ connects' = connects + 1
    /\ active_connections' = SetItem(active_connections, client_id, connects + 1)
    /\ connection_metadata' = SetMeta(active_connections, connection_metadata, client_id)
    /\ UNCHANGED << broken, bc, notifies, nd, updates, jobVars, wfVars, taskVars, statusVars >>

disconnect(client_id) ==
    /\ client_id \in Registered(active_connections)
    /\ active_connections' = DelItem(active_connections, client_id)
    /\ connection_metadata' = DelMeta(active_connections, connection_metadata, client_id)
    /\ UNCHANGED << connects, broken, bc, notifies, nd, updates, jobVars, wfVars, taskVars, statusVars >>

\* the peer of a websocket goes away: every later send on it raises
websocket_breaks(ws) ==
    /\ ws \in 1 .. connects
    /\ ws \notin broken
    /\ broken' = broken \cup {ws}
    /\ UNCHANGED << active_connections, connects, bc, notifies,
                    connection_metadata, nd, updates, jobVars, wfVars, taskVars, statusVars >>

(***************************************************************************)
(* notify_processing_progress -> broadcast_json -> broadcast.  The loop    *)
(* iterates active_connections.items() itself and is suspended in each     *)
(* "await connection.send_text(message)".  The iterator remembers its slot *)
(* (pos), the size of the dict when it was made (used) and the number of   *)
(* items it still expects (remaining); its next step raises RuntimeError   *)
(* when the size has changed or when it finds an item it does not expect.  *)
(*   idle    : no call in hand                                             *)
(*   sending : suspended in the send to target                             *)
(*   done    : the call has returned                                       *)
(*   error   : the call has raised RuntimeError                            *)
(***************************************************************************)
IdleBroadcast ==
    [ pc |-> "idle", pos |-> 0, used |-> 0, remaining |-> 0, target |-> Removed,
      disconnected_clients |-> << >>, start |-> {}, delivered |-> {}, failed |-> {} ]

notify_processing_progress_begin ==
    /\ bc.pc \in {"idle", "done", "error"}
    /\ notifies < MaxNotifies
    /\ notifies' = notifies + 1
    /\ LET conns == active_connections
           first == NextSlot(conns, 1)
           used  == Cardinality(LiveSlots(conns))
       IN  bc' = IF first = 0
                   THEN [ IdleBroadcast EXCEPT !.pc = "done" ]
                   ELSE [ IdleBroadcast EXCEPT
                            !.pc = "sending",
                            !.pos = first,
                            !.used = used,
                            !.remaining = used - 1,
                            !.target = conns[first],
                            !.start = { conns[i] : i \in LiveSlots(conns) } ]
    /\ UNCHANGED << active_connections, connects, broken,
                    connection_metadata, nd, updates, jobVars, wfVars, taskVars, statusVars >>

broadcast_send_returns ==
    /\ bc.pc = "sending"
    /\ LET conns == active_connections
           sent_ok == bc.target.ws \notin broken
           \* connection_metadata[client_id] of a client that has left: KeyError
           key_error == sent_ok /\ bc.target.client \notin Registered(conns)
           dropped == IF sent_ok /\ ~key_error
                        THEN bc.disconnected_clients
                        ELSE Append(bc.disconnected_clients, bc.target.client)
           after == [ bc EXCEPT
                        !.disconnected_clients = dropped,
                        !.delivered = IF sent_ok THEN @ \cup {bc.target.ws} ELSE @,
                        !.failed = IF sent_ok THEN @ ELSE @ \cup {bc.target.ws} ]
           next == NextSlot(conns, bc.pos + 1)
       IN  IF Cardinality(LiveSlots(conns)) # bc.used
             THEN \* "dictionary changed size during iteration"
                  /\ bc' = [ after EXCEPT !.pc = "error" ]
                  /\ UNCHANGED << active_connections, connection_metadata >>
             ELSE IF next = 0
               THEN \* the loop is over: disconnect every client of the list
                    /\ bc' = [ after EXCEPT !.pc = "done" ]
                    /\ active_connections' = DelItems(conns, dropped)
                    /\ connection_metadata' = DelMetas(conns, connection_metadata, dropped)
               ELSE IF bc.remaining = 0
                 THEN \* "dictionary keys changed during iteration"
                      /\ bc' = [ after EXCEPT !.pc = "error" ]
                      /\ UNCHANGED << active_connections, connection_metadata >>
                 ELSE /\ bc' = [ after EXCEPT !.pos = next,
                                              !.remaining = @ - 1,
                                              !.target = conns[next] ]
                      /\ UNCHANGED << active_connections, connection_metadata >>
    /\ UNCHANGED << connects, broken, notifies, nd, updates, jobVars, wfVars, taskVars, statusVars >>

(***************************************************************************)
(* subscribe_to_document / unsubscribe_from_document / notify_document_    *)
(* update.  A subscription "document:<id>" is named by the id.  The loop   *)
(* of notify_document_update iterates connection_metadata.items() itself   *)
(* and is suspended in the send of send_json_message, which on a failed    *)
(* send calls disconnect and so deletes from the dict under iteration.     *)
(***************************************************************************)
MaxUpdates == 1       \* calls of notify_document_update

Topics == {1, 2}

IsSubscribed_Any(subscriptions, document_id) == TRUE

IsSubscribed(subscriptions, document_id) == document_id \in subscriptions

subscribe_to_document(client_id, document_id) ==
    /\ client_id \in Registered(active_connections)
    /\ LET slot == SlotOf(active_connections, client_id)
       IN  /\ document_id \notin connection_metadata[slot]
           /\ connection_metadata' =
                [ connection_metadata EXCEPT ![slot] = @ \cup {document_id} ]
    /\ UNCHANGED << active_connections, connects, broken, bc, notifies, nd, updates,
                    jobVars, wfVars, taskVars, statusVars >>

unsubscribe_from_document(client_id, document_id) ==
    /\ client_id \in Registered(active_connections)
    /\ LET slot == SlotOf(active_connections, client_id)
       IN  /\ document_id \in connection_metadata[slot]
           /\ connection_metadata' =
                [ connection_metadata EXCEPT ![slot] = @ \ {document_id} ]
    /\ UNCHANGED << active_connections, connects, broken, bc, notifies, nd, updates,
                    jobVars, wfVars, taskVars, statusVars >>

IdleUpdate ==
    [ pc |-> "idle", document_id |-> 0, pos |-> 0, used |-> 0, remaining |-> 0,
      target |-> Removed, start |-> {}, delivered |-> {}, failed |-> {} ]

\* the iteration from slot p on, up to the next item the message is sent to:
\* items without the subscription are passed without a suspension
RECURSIVE NextSubscribed(_, _, _, _, _)
NextSubscribed(conns, meta, p, remaining, document_id) ==
    LET n == NextSlot(conns, p)
    IN  IF n = 0
          THEN [ kind |-> "done", pos |-> p, remaining |-> remaining ]
          ELSE IF remaining = 0
            THEN [ kind |-> "error", pos |-> n, remaining |-> 0 ]
            ELSE IF IsSubscribed(meta[n], document_id)
              THEN [ kind |-> "send", pos |-> n, remaining |-> remaining - 1 ]
              ELSE NextSubscribed(conns, meta, n + 1, remaining - 1, document_id)

AfterIteration(call, conns, step) ==
    [ call EXCEPT !.pc = IF step.kind = "send" THEN "sending" ELSE step.kind,
                  !.pos = step.pos,
                  !.remaining = step.remaining,
                  !.target = IF step.kind = "send" THEN conns[step.pos] ELSE Removed ]

notify_document_update_begin(document_id) ==
    /\ nd.pc \in {"idle", "done", "error"}
    /\ updates < MaxUpdates
    /\ updates' = updates + 1
    /\ LET conns == active_connections
           meta == connection_metadata
           used == Cardinality(LiveSlots(conns))
           call == [ IdleUpdate EXCEPT
                       !.document_id = document_id,
                       !.used = used,
                       !.start = { conns[i] : i \in { j \in LiveSlots(conns) :
                                     IsSubscribed(meta[j], document_id) } } ]
       IN  nd' = AfterIteration(call, conns,
                                NextSubscribed(conns, meta, 1, used, document_id))
    /\ UNCHANGED << active_connections, connects, broken, bc, notifies,
                    connection_metadata, jobVars, wfVars, taskVars, statusVars >>

send_json_message_returns ==
    /\ nd.pc = "sending"
    /\ LET sent_ok == nd.target.ws \notin broken
           \* except block of send_json_message: self.disconnect(client_id)
           conns == IF sent_ok THEN active_connections
                    ELSE DelItem(active_connections, nd.target.client)
           meta == IF sent_ok THEN connection_metadata
                   ELSE DelMeta(active_connections, connection_metadata,
                                nd.target.client)
           after == [ nd EXCEPT
                        !.delivered = IF sent_ok THEN @ \cup {nd.target} ELSE @,
                        !.failed = IF sent_ok THEN @ ELSE @ \cup {nd.target} ]
       IN  /\ active_connections' = conns
           /\ connection_metadata' = meta
           /\ nd' = IF Cardinality(LiveSlots(conns)) # nd.used
                      THEN \* "dictionary changed size during iteration"
                           [ after EXCEPT !.pc = "error", !.target = Removed ]
                      ELSE AfterIteration(after, conns,
                             NextSubscribed(conns, meta, nd.pos + 1,
                                            nd.remaining, nd.document_id))
    /\ UNCHANGED << connects, broken, bc, notifies, updates, jobVars, wfVars, taskVars, statusVars >>

ConnInit ==
    /\ active_connections = << >>
    /\ connects = 0
    /\ broken = {}
    /\ bc = IdleBroadcast
    /\ notifies = 0
    /\ connection_metadata = << >>
    /\ nd = IdleUpdate
    /\ updates = 0

ConnNext ==
    \/ \E client_id \in ClientIds : connect(client_id)
    \/ \E client_id \in ClientIds : disconnect(client_id)
    \/ \E ws \in 1 .. MaxConnects : websocket_breaks(ws)
    \/ notify_processing_progress_begin
    \/ broadcast_send_returns

NotifyNext ==
    \/ \E client_id \in ClientIds : connect(client_id)
    \/ \E client_id \in ClientIds : disconnect(client_id)
    \/ \E ws \in 1 .. MaxConnects : websocket_breaks(ws)
    \/ \E client_id \in ClientIds, document_id \in Topics :
          subscribe_to_document(client_id, document_id)
    \/ \E client_id \in ClientIds, document_id \in Topics :
          unsubscribe_from_document(client_id, document_id)
    \/ \E document_id \in Topics : notify_document_update_begin(document_id)
    \/ send_json_message_returns

(***************************************************************************)
(* get_system_status: a pure function of the numbers of rows of the        *)
(* processing_jobs table in each status.  success_rate is reported in      *)
(* hundredths of a percent (round(x, 2) keeps two decimals); the float     *)
(* comparison failed_jobs < total_jobs * 0.1 is the integer comparison     *)
(* failed_jobs * 10 < total_jobs.                                          *)
(***************************************************************************)
MaxCount == 3         \* rows of the table in one status

JobCounts == [ JobStatus -> 0 .. MaxCount ]

\* round(n / d, 0) of Python for d > 0: to the nearest, a tie to the even
Round(n, d) ==
    LET q == n \div d
        r == n % d
    IN  IF 2 * r < d THEN q
        ELSE IF 2 * r > d THEN q + 1
        ELSE IF q % 2 = 0 THEN q ELSE q + 1

SuccessRate(completed_jobs, total_jobs) ==
    IF total_jobs > 0 THEN Round(completed_jobs * 10000, total_jobs) ELSE 0

SystemHealth_AtMost(failed_jobs, total_jobs) ==
    IF failed_jobs * 10 <= total_jobs THEN "healthy" ELSE "degraded"

SystemHealth(failed_jobs, total_jobs) ==
    IF failed_jobs * 10 < total_jobs THEN "healthy" ELSE "degraded"

NoReport == [ total_jobs |-> 0 - 1 ]

SystemStatus(counts) ==
    LET total_jobs == counts[PENDING] + counts[RUNNING]
                        + counts[COMPLETED] + counts[FAILED]
    IN  [ total_jobs |-> total_jobs,
          pending_jobs |-> counts[PENDING],
          running_jobs |-> counts[RUNNING],
          completed_jobs |-> counts[COMPLETED],
          failed_jobs |-> counts[FAILED],
          success_rate |-> SuccessRate(counts[COMPLETED], total_jobs),
          system_health |-> SystemHealth(counts[FAILED], total_jobs) ]

get_system_status ==
    /\ report' = SystemStatus(job_counts)
    /\ UNCHANGED << job_counts, jobVars, wfVars, taskVars, connVars >>

StatusIdle ==
    /\ job_counts = [ s \in JobStatus |-> 0 ]
    /\ report = NoReport


StatusNext == get_system_status

Init == JobInit /\ WfInit /\ TaskInit /\ ConnInit /\ StatusIdle

JobSpec == Init /\ [][JobNext]_vars

(***************************************************************************)
(* The event loop keeps resuming a started _process_job_async coroutine:   *)
(* every asyncio.sleep returns and the statements after it run.            *)
(***************************************************************************)
JobFairSpec ==
    /\ JobSpec
    /\ \A id \in RequestIds :
          /\ WF_vars(process_handler_step(id))
          /\ WF_vars(process_job_async_complete(id))
          /\ WF_vars(process_job_async_fail(id))

WfSpec == Init /\ [][WfNext]_vars

SoftDeleteSpec == Init /\ [][SoftDeleteNext]_vars

TaskSpec == Init /\ [][TaskNext]_vars

BatchSpec == Init /\ [][BatchNext]_vars

ConnSpec == Init /\ [][ConnNext]_vars

NotifySpec == Init /\ [][NotifyNext]_vars

\* the table holds any numbers of rows when get_system_status is called
StatusInit ==
    JobInit /\ WfInit /\ TaskInit /\ ConnInit
      /\ job_counts \in JobCounts /\ report = NoReport

StatusSpec == StatusInit /\ [][StatusNext]_vars

(***************************************************************************)
(* Helpers of the properties.                                              *)
(***************************************************************************)
CancelCalled == cancels' = cancels + 1

Terminal(status) == status \in {COMPLETED, FAILED}

ClaimedTransitions ==
    { << PENDING, RUNNING >>, << RUNNING, COMPLETED >>,
      << RUNNING, FAILED >>, << PENDING, FAILED >> }

\* C1: every change of a job's persisted status is one of pending->running,
\* running->completed, running->failed, pending->failed; a completed or
\* failed job never changes status again.
C1_StatusTransitions ==
    [][ \A id \in DOMAIN jobs \cap DOMAIN jobs' :
          jobs'[id].status # jobs[id].status
            => << jobs[id].status, jobs'[id].status >> \in ClaimedTransitions
      ]_vars

\* C2 as stated: the persisted progress of a job never decreases, the case
\* of a job executed more than once included.
C2_ProgressNeverDecreases ==
    [][ \A id \in DOMAIN jobs \cap DOMAIN jobs' : jobs'[id].progress >= jobs[id].progress ]_vars

\* C2 amended: within one execution of a job the persisted progress never
\* decreases, for every handler; only a step that starts an execution
\* (and resets progress to 0) can lower it.
C2_ProgressMonotoneWithinRun ==
    [][ \A id \in DOMAIN jobs \cap DOMAIN jobs' :
          runs'[id] = runs[id] => jobs'[id].progress >= jobs[id].progress
      ]_vars

C2_Witness ==
    \E id \in DOMAIN jobs :
        /\ runs[id] = 2
        /\ rpc[id] = "loop"
        /\ jobs[id].progress > 0

C4_ErrorMessageIffFailed ==
    \A id \in DOMAIN jobs :
        jobs[id].error_message # NULL <=> jobs[id].status = FAILED

\* C5: cancel_job on a completed or failed job, or on an absent id, returns
\* false and changes no record.
C5_CancelTerminalIsNoOp ==
    [][ CancelCalled /\ ( \/ last'.id \notin DOMAIN jobs
                          \/ Terminal(jobs[last'.id].status) )
          => /\ last'.ret = FALSE
             /\ jobs' = jobs
      ]_vars

C5_Witness ==
    /\ cancels = 2
    /\ last.ret = FALSE
    /\ last.id \in DOMAIN jobs
    /\ jobs[last.id].status = COMPLETED
    /\ jobs[last.id].error_message = NULL

\* C6 as stated: cancel_job on a pending or running job returns true and
\* leaves status failed, error_message "cancelled" and completed_at set.
C6_CancelSetsCancelled ==
    [][ CancelCalled /\ last'.id \in DOMAIN jobs
                     /\ jobs[last'.id].status \in {PENDING, RUNNING}
          => /\ last'.ret = TRUE
             /\ jobs'[last'.id].status = FAILED
             /\ jobs'[last'.id].error_message = Some("cancelled")
             /\ jobs'[last'.id].completed_at # NULL
      ]_vars

\* C6 amended: cancel_job on a pending or running job returns true and
\* leaves status failed, error_message "Job cancelled by user" and
\* completed_at set to the time of the call.
C6_CancelSetsCancelledByUser ==
    [][ CancelCalled /\ last'.id \in DOMAIN jobs
                     /\ jobs[last'.id].status \in {PENDING, RUNNING}
          => /\ last'.ret = TRUE
             /\ jobs'[last'.id].status = FAILED
             /\ jobs'[last'.id].error_message = Some("Job cancelled by user")
             /\ jobs'[last'.id].completed_at = Some(now)
      ]_vars

C6_Witness ==
    /\ last.ret = TRUE
    /\ last.id \in DOMAIN jobs
    /\ rpc[last.id] = "loop"
    /\ jobs[last.id].status = FAILED
    /\ jobs[last.id].error_message = Some("Job cancelled by user")
    /\ jobs[last.id].completed_at # NULL

(***************************************************************************)
(* Workflow properties.                                                    *)
(***************************************************************************)
InFlight(e) == ex[e].pc \in {"steps", "commit_failed", "commit_ok"}

Finished(id) == { e \in Execs : ex[e].pc = "done" /\ ex[e].wid = id
                                  /\ ex[e].outcome # "not_found" }

\* C7: once N invocations of execute_workflow on a workflow have all
\* finished, total_runs = N and successful_runs + failed_runs = N.
C7_CountersMatchExecutions ==
    \A id \in DOMAIN wf :
        (\A e \in Execs : ex[e].wid = id => ~InFlight(e))
          => /\ wf[id].total_runs = Cardinality(Finished(id))
             /\ wf[id].successful_runs + wf[id].failed_runs
                  = Cardinality(Finished(id))

\* C8 as stated: once a step handler of an execution has been invoked, the
\* persisted total_runs already counts that execution.
C8_TotalRunsPersistedBeforeSteps ==
    \A e \in Execs :
        InFlight(e) /\ ex[e].invoked # << >>
          => wf[ex[e].wid].total_runs >= ex[e].loaded.total_runs + 1

\* C8 amended: execute_workflow persists nothing before its final commit;
\* the persisted run counters change only in the step in which an
\* execution commits, where total_runs is written together with
\* failed_runs or successful_runs.
C8_CountersChangeOnlyAtCommit ==
    [][ \A id \in DOMAIN wf :
          ( \/ wf'[id].total_runs # wf[id].total_runs
            \/ wf'[id].failed_runs # wf[id].failed_runs
            \/ wf'[id].successful_runs # wf[id].successful_runs )
            => \E e \in Execs :
                 /\ ex[e].wid = id
                 /\ ex[e].pc \in {"commit_failed", "commit_ok"}
                 /\ ex'[e].pc = "done"
                 /\ wf'[id].total_runs = ex[e].loaded.total_runs + 1
      ]_vars

C8_Witness ==
    \E e \in Execs :
        /\ ex[e].pc = "commit_failed"
        /\ ex[e].invoked # << >>
        /\ wf[ex[e].wid].total_runs = ex[e].loaded.total_runs

\* C9: when a step is the first to fail, no later step handler is invoked
\* in that execution, the execution writes failed_runs as the value it
\* read plus one, and it does not write successful_runs.
C9_StopOnFirstFailure ==
    [][ \A e \in Execs :
          LET steps == ex[e].loaded.steps
              AllSucceeded(inv) ==
                  \A p \in 1 .. Len(inv) : ExecuteStep(steps[inv[p]].step_type)
          IN  /\ Len(ex'[e].invoked) > Len(ex[e].invoked)
                   => AllSucceeded(ex[e].invoked)
              /\ ex'[e].pc = "commit_ok" => AllSucceeded(ex'[e].invoked)
              /\ ( InFlight(e) /\ ex'[e].pc = "done"
                     /\ ~AllSucceeded(ex[e].invoked) )
                   => /\ ex'[e].outcome = "failed"
                      /\ wf'[ex[e].wid].failed_runs = ex[e].loaded.failed_runs + 1
                      /\ wf'[ex[e].wid].successful_runs
                           = wf[ex[e].wid].successful_runs
      ]_vars

C9_Witness ==
    \E e \in Execs :
        /\ ex[e].pc = "done"
        /\ ex[e].outcome = "failed"
        /\ Len(ex[e].loaded.steps) = 2
        /\ ex[e].invoked = << 1 >>
        /\ wf[ex[e].wid].failed_runs = 1
        /\ wf[ex[e].wid].successful_runs = 0

\* C10: an execution of a workflow all of whose steps have a known
\* step_type ends as a success: total_runs and successful_runs are written
\* as the values read plus one and failed_runs is left alone.
C10_KnownStepsSucceed ==
    \A e \in Execs :
        ( /\ ex[e].pc = "done"
          /\ ex[e].outcome # "not_found"
          /\ \A p \in 1 .. Len(ex[e].loaded.steps) :
                 ex[e].loaded.steps[p].step_type \in KnownStepTypes )
          => ex[e].outcome = "success"

\* C11: an execution of a workflow that has a step of unknown step_type,
\* at whatever position, ends as a failure: it writes failed_runs as the
\* value it read plus one and does not write successful_runs.
C11_UnknownStepFails ==
    [][ \A e \in Execs :
          ( /\ InFlight(e)
            /\ ex'[e].pc = "done"
            /\ \E p \in 1 .. Len(ex[e].loaded.steps) :
                   ex[e].loaded.steps[p].step_type \notin KnownStepTypes )
            => /\ ex'[e].outcome = "failed"
               /\ wf'[ex[e].wid].failed_runs = ex[e].loaded.failed_runs + 1
               /\ wf'[ex[e].wid].successful_runs = wf[ex[e].wid].successful_runs
      ]_vars

C11_Witness ==
    \E e \in Execs :
        /\ ex[e].pc = "done"
        /\ ex[e].outcome = "failed"
        /\ Len(ex[e].loaded.steps) = 2
        /\ ex[e].loaded.steps[1].step_type = "unknown"
        /\ ex[e].loaded.steps[2].step_type = "notification"
        /\ ex[e].invoked = << 1 >>
        /\ wf[ex[e].wid].failed_runs = ex[e].loaded.failed_runs + 1

C14_MissingDocumentNeverCompleted ==
    \A id \in DOMAIN jobs :
        ( /\ jobs[id].job_type = "text_extraction"
          /\ jobs[id].document_id = Some(MissingId) )
          => jobs[id].status # COMPLETED

TaskRan == task.state \in {"PENDING", "RETRY"} /\ task' # task

C18_NotFoundSurfaced ==
    [][ ( TaskRan /\ task.arg \notin DOMAIN docs )
          => /\ task'.state = "FAILURE"
             /\ task'.retries = task.retries
             /\ task'.exc = Some(NotFoundMessage)
      ]_vars

\* C19: process_document_batch appends, for the id at each position of its
\* input, one entry: not_found only when the id has no row, completed only
\* when the row exists and its extraction succeeds, failed when the
\* handling of the id raises (always when the extraction does); the loop
\* goes on to the next position whatever the entry, so the finished list
\* has one entry per input id, in input order.
C19_BatchResults ==
    /\ [][ ( batch.pc = "loop" /\ batch' # batch )
             => LET id == batch.ids[batch.i]
                IN  /\ Len(batch'.results) = batch.i
                    /\ batch'.results[batch.i].document_id = id
                    /\ batch'.results[batch.i].status = "not_found"
                         => id \notin DOMAIN docs
                    /\ batch'.results[batch.i].status = "completed"
                         => id \in DOMAIN docs /\ id \in files
                    /\ ( id \in DOMAIN docs /\ id \notin files )
                         => batch'.results[batch.i].status = "failed"
                    /\ batch'.pc = "loop" <=> batch.i < Len(batch.ids)
       ]_vars
    /\ []( batch.pc = "done"
             => /\ Len(batch.results) = Len(batch.ids)
                /\ \A p \in 1 .. Len(batch.ids) :
                     batch.results[p].document_id = batch.ids[p] )

\* C20 as stated: when a notify_processing_progress call ends, every
\* observer that was registered when it started and is still registered
\* has been sent the message, and every observer whose send failed is no
\* longer registered.
C20_DeliveredToAll ==
    [][ ( bc.pc = "sending" /\ bc'.pc \in {"done", "error"} )
          => \A o \in bc.start :
               LET registered ==
                     \E i \in LiveSlots(active_connections') :
                         active_connections'[i] = o
               IN  /\ registered => o.ws \in bc'.delivered
                   /\ o.ws \in bc'.failed => ~registered
      ]_vars

\* C21: notify_document_update(d) sends only to clients subscribed to d:
\* whenever the call picks the next client to send to, that client is
\* registered and has "document:d" in its subscriptions at that moment, so
\* a client that never subscribed to d, or subscribed only to another
\* document, or has unsubscribed since, is never sent the message.
C21_OnlySubscribers ==
    [][ ( nd'.pc = "sending" /\ ( nd.pc # "sending" \/ nd'.pos # nd.pos ) )
          => /\ nd'.pos \in LiveSlots(active_connections')
             /\ nd'.target = active_connections'[nd'.pos]
             /\ nd'.document_id \in connection_metadata'[nd'.pos]
      ]_vars

C21_Witness ==
    /\ nd.pc = "done"
    /\ nd.document_id = 1
    /\ active_connections = << [ client |-> "a", ws |-> 1 ],
                               [ client |-> "b", ws |-> 2 ] >>
    /\ connection_metadata = << {2}, {1} >>
    /\ broken = {}
    /\ nd.delivered = { [ client |-> "b", ws |-> 2 ] }

\* C22: connect is idempotent per client_id: after connect(c) the registry
\* holds exactly one entry for c, that entry is the websocket of this call,
\* the entries of the other clients are untouched, and a message that is
\* then addressed to a client goes to the websocket registered for it.
C22_ConnectIdempotent ==
    [][ /\ connects' = connects + 1
          => \E c \in ClientIds :
               /\ Cardinality({ i \in LiveSlots(active_connections') :
                                  active_connections'[i].client = c }) = 1
               /\ active_connections'[SlotOf(active_connections', c)].ws = connects'
               /\ \A i \in LiveSlots(active_connections) :
                    active_connections[i].client # c
                      => active_connections'[i] = active_connections[i]
        /\ ( bc'.pc = "sending" /\ bc'.target # bc.target )
          => \E i \in LiveSlots(active_connections') :
               /\ active_connections'[i] = bc'.target
               /\ \A j \in LiveSlots(active_connections') :
                    active_connections'[j].client = bc'.target.client => j = i
      ]_vars

C22_Witness ==
    /\ connects = 2
    /\ active_connections = << [ client |-> "a", ws |-> 2 ] >>
    /\ broken = {}
    /\ bc.pc = "done"
    /\ bc.delivered = {2}

\* C27 as stated: in notify_document_update a failed send removes that
\* client from the registry and the call goes on without raising; when the
\* call ends normally every subscriber of its start that stayed registered
\* and subscribed has been sent the message.
C27_SendFailureContained ==
    [][ ( nd.pc = "sending" /\ nd'.failed # nd.failed )
          => /\ nd.target.client \notin Registered(active_connections')
             /\ nd'.pc # "error"
             /\ nd'.pc = "done"
                  => \A o \in nd.start :
                       ( \E i \in LiveSlots(active_connections') :
                           /\ active_connections'[i] = o
                           /\ nd.document_id \in connection_metadata'[i] )
                         => o \in nd'.delivered
      ]_vars

\* C28 as stated: a broadcast that is suspended in a send while another
\* coroutine connects or disconnects a client still ends without an error,
\* and when it ends every client registered from its start to its end has
\* been sent the message.
C28_BroadcastSurvivesChange ==
    [][ bc.pc = "sending"
          => /\ bc'.pc # "error"
             /\ bc'.pc = "done"
                  => \A o \in bc.start :
                       ( \E i \in LiveSlots(active_connections) :
                           active_connections[i] = o )
                         => o.ws \in bc'.delivered \cup bc'.failed
      ]_vars

\* C23 as stated: the report is "healthy" exactly when the failed jobs are
\* fewer than 10% of all jobs and "degraded" otherwise, zero jobs included,
\* and success_rate is completed / total * 100, 0 when there are no jobs.
C23_SystemStatusExact ==
    report # NoReport
      => /\ report.system_health \in {"healthy", "degraded"}
         /\ report.system_health = "healthy"
              <=> report.failed_jobs * 10 < report.total_jobs
         /\ IF report.total_jobs = 0
              THEN report.success_rate = 0
              ELSE report.success_rate * report.total_jobs
                     = report.completed_jobs * 10000

\* C23 amended: as above, with success_rate being completed / total * 100
\* rounded to two decimal places (at most half a hundredth away from it).
C23_SystemStatusRounded ==
    report # NoReport
      => /\ report.total_jobs = job_counts[PENDING] + job_counts[RUNNING]
                                  + job_counts[COMPLETED] + job_counts[FAILED]
         /\ report.completed_jobs = job_counts[COMPLETED]
         /\ report.failed_jobs = job_counts[FAILED]
         /\ report.system_health \in {"healthy", "degraded"}
         /\ report.system_health = "healthy"
              <=> report.failed_jobs * 10 < report.total_jobs
         /\ IF report.total_jobs = 0
              THEN report.success_rate = 0
              ELSE LET off == report.success_rate * report.total_jobs
                                - report.completed_jobs * 10000
                   IN  /\ 2 * off <= report.total_jobs
                       /\ 2 * off >= 0 - report.total_jobs

C23_Witness ==
    /\ report # NoReport
    /\ report.total_jobs = 3
    /\ report.completed_jobs = 1
    /\ report.failed_jobs = 0
    /\ report.success_rate = 3333
    /\ report.system_health = "healthy"

\* C24 as stated (the cancel endpoint): a cancel request for an id that
\* does not exist is answered 404, changes no job record and starts no
\* runner, and 404 is answered only when the id does not exist.
C24_NotFoundOnlyForMissing ==
    [][ CancelCalled
          => /\ last'.id \notin DOMAIN jobs
                  => /\ cancel_processing_job(last'.ret) = NotFound
                     /\ jobs' = jobs
                     /\ rpc' = rpc
                     /\ runs' = runs
             /\ cancel_processing_job(last'.ret) = NotFound
                  => last'.id \notin DOMAIN jobs
      ]_vars

\* C25 as stated: once created, a job record is changed or removed only by
\* a step of its runner _process_job_async or by a cancel_job call for it.
C25_OnlyRunnerAndCancel ==
    [][ \A id \in DOMAIN jobs :
          ( id \notin DOMAIN jobs' \/ jobs'[id] # jobs[id] )
            => \/ CancelCalled /\ last'.id = id
               \/ runs'[id] # runs[id]
               \/ rpc'[id] # rpc[id]
               \/ ri'[id] # ri[id]
      ]_vars

\* C26 as stated: a job cancelled while pending (failed with the cancel
\* message, never started) is not moved to running or completed by the
\* runner, and its handler is not executed.
C26_CancelledPendingNotRun ==
    [][ \A id \in DOMAIN jobs \cap DOMAIN jobs' :
          ( /\ jobs[id].status = FAILED
            /\ jobs[id].error_message = Some(CancelMessage)
            /\ jobs[id].started_at = NULL )
            => /\ jobs'[id].status = FAILED
               /\ jobs'[id].started_at = NULL
               /\ rpc'[id] = "idle"
      ]_vars

\* C30 as stated: a soft-deleted workflow (is_active false) is not listed
\* by list_workflows; an execute request that arrives while it is deleted
\* ends at once, runs no step and leaves the row as it is; and is_active
\* does not become true again through an execution.
C30_SoftDeletedNotExecuted ==
    [][ \A id \in DOMAIN wf :
          ~ wf[id].is_active
            => /\ id \notin list_workflows
               /\ \A e \in Execs :
                    ( ex[e].pc = "idle" /\ ex'[e].pc # "idle" /\ ex'[e].wid = id )
                      => /\ ex'[e].pc = "done"
                         /\ ex'[e].invoked = << >>
                         /\ wf' = wf
               /\ wf'[id].is_active => ex' = ex
      ]_vars

\* C29 as stated: an exception raised while the id at position i is
\* handled changes, in the session, the status and error_message of the
\* document with that id only, and the exception handler does not raise:
\* the iteration ends with its entry appended and the changes made for
\* every other document as they were.
C29_FailureTouchesOwnDocument ==
    [][ ( batch.pc = "loop" /\ batch' # batch )
          => LET id == batch.ids[batch.i]
             IN  /\ batch'.pc # "raised"
                 /\ \A d \in DocIds \ {id} :
                      Change(batch'.dirty, d) = Change(batch.dirty, d)
      ]_vars

====
